---- MODULE Spec2Model ----
(***************************************************************************)
(* Model of the request-validation middleware of src/src/index.ts.         *)
(*                                                                         *)
(* validate(schema, errorHandler) builds one middleware unit.  The unit    *)
(* is run on a request: it walks the parts body, query, params, headers,   *)
(* calls schema[part].safeParse on every declared part, hands the first    *)
(* failure to the error handler, stores validated data and finally calls   *)
(* the continuation.  index.ts holds two variants of validate: the one     *)
(* that stores into req.schema[part] ("namespace", lines 53-96) and the    *)
(* one that overwrites req[part] ("writeThrough", lines 180-217).          *)
(* built remembers the constructor call that made the unit.                *)
(*                                                                         *)
(* JavaScript values are encoded uniformly: an optional value is a         *)
(* sequence of length 0 (undefined / absent) or 1; an error-like value is  *)
(* a record [type, message, cause].                                        *)
(***************************************************************************)
EXTENDS Integers, Sequences, FiniteSets, TLC

VARIABLES schema, errorHandler, variant, rq, built

vars == <<schema, errorHandler, variant, rq, built>>

----------------------------------------------------------------------------
(* Bounds *)

\* raw part values are drawn from 0..MaxVal
MaxVal == 2

\* how many times the host runs the unit on one request object
MaxRuns == 2

\* number of in-flight requests of the concurrent specification
MaxReq == 2

----------------------------------------------------------------------------
(* Parts, schemas, values *)

PartNames == {"body", "query", "params", "headers"}

\* the loop walking the parts in another order
PartOrder_queryFirst == <<"query", "body", "params", "headers">>

\* index.ts:63  for (const part of ['body', 'query', 'params', 'headers'])
PartOrder == <<"body", "query", "params", "headers">>

\* a slot of the schema map: "none" is an absent entry
SchemaKinds == {"none", "coerce", "defect"}

Variants == {"namespace", "writeThrough"}

HandlerKinds == {"default", "respond", "forward", "throws", "throwsOnResult"}

RawValues == 0..MaxVal

Undefined == <<>>

Some(x) == <<x>>

JsError(msg) == [type |-> "Error", message |-> msg, cause |-> Undefined]

JsUndefined == [type |-> "undefined", message |-> "", cause |-> Undefined]

JsString(text) == [type |-> "string", message |-> text, cause |-> Undefined]

ValidationError(v) == [type |-> "object", message |-> "invalid", cause |-> Some(v)]

\* JavaScript truthiness of an error-like value
Truthy(e) == e.type \notin {"undefined"}

\* error instanceof Error
InstanceOfError(e) == e.type = "Error"

\* String(error)
StringOf(e) ==
  CASE e.type = "undefined" -> "undefined"
    [] e.type = "string" -> e.message
    [] e.type = "Error" -> e.message
    [] OTHER -> "[object Object]"

\* the normal form a coercing schema produces: odd values are rounded up
Normalize(v) == v + (v % 2)

\* schema[part].safeParse(req[part]): the validator capability.
\*   coerce : 0 is invalid, every other value is valid and normalized
\*   defect : a validator that throws for 0 (undefined), 1 (an Error),
\*            2 (a string) and works as the identity above that
SafeParse(kind, v) ==
  CASE kind = "coerce" /\ v = 0 ->
         [threw |-> FALSE, success |-> FALSE, data |-> v, error |-> ValidationError(v)]
    [] kind = "coerce" /\ v # 0 ->
         [threw |-> FALSE, success |-> TRUE, data |-> Normalize(v), error |-> JsUndefined]
    [] kind = "defect" /\ v = 0 ->
         [threw |-> TRUE, success |-> FALSE, data |-> v, error |-> JsUndefined]
    [] kind = "defect" /\ v = 1 ->
         [threw |-> TRUE, success |-> FALSE, data |-> v, error |-> JsError("defect")]
    [] kind = "defect" /\ v = 2 ->
         [threw |-> TRUE, success |-> FALSE, data |-> v, error |-> JsString("boom")]
    [] OTHER ->
         [threw |-> FALSE, success |-> TRUE, data |-> v, error |-> JsUndefined]

----------------------------------------------------------------------------
(* Request context *)

InitialResponse == [status |-> 200, body |-> Undefined]

\* pc: "idle" (not yet handed to the unit), "loop" (at part number i),
\* "returned" (the middleware returned), "escaped" (it threw).
\* raw0 and ns0 remember req[part] and req.schema as the unit received them;
\* log is the sequence of calls made while the unit ran.
NewRequest(native, ns) ==
  [pc |-> "idle", i |-> 1, native |-> native, raw0 |-> native,
   schemaNs |-> ns, ns0 |-> ns,
   res |-> InitialResponse, log |-> <<>>, nextKind |-> "unknown", runs |-> 1]

\* req.schema?.[part]
Slot(ns, p) == IF ns = Undefined THEN Undefined ELSE ns[1][p]

Event(op, by, part, error, result, threw) ==
  [op |-> op, by |-> by, part |-> part, error |-> error, result |-> result,
   threw |-> threw]

Logged(q, ev) == [q EXCEPT !.log = Append(@, ev)]

\* next(arg) called by `by`; nk is how this request's continuation behaves
CallNext(q, by, arg, nk) ==
  [Logged(q, Event("next", by, "", arg, Undefined, nk = "throws"))
     EXCEPT !.nextKind = nk]

NextError == JsError("next failed")

HandlerError == JsError("handler failed")

----------------------------------------------------------------------------
(* Error handlers *)

\* res.status(code).json(body)
Respond(q, code, body) == [q EXCEPT !.res = [status |-> code, body |-> Some(body)]]

\* the reply sent with the wrong branch: the structured result is ignored
defaultErrorHandler_noResult(q, error, result) ==
  Respond(q, 400, [keys |-> {"error"},
                   error |-> IF InstanceOfError(error) THEN error.message
                             ELSE StringOf(error),
                   cause |-> Undefined])

defaultErrorHandler(q, error, result) ==
  IF result # Undefined /\ Truthy(result[1].error)
  THEN Respond(q, 400, [keys |-> {"error", "cause"},
                        error |-> result[1].error.message,
                        cause |-> result[1].error.cause])
  ELSE Respond(q, 400, [keys |-> {"error"},
                        error |-> IF InstanceOfError(error) THEN error.message
                                  ELSE StringOf(error),
                        cause |-> Undefined])

\* does handler h throw when called with these arguments
HandlerThrows(h, result, nk) ==
  \/ h = "throws"
  \/ h = "throwsOnResult" /\ result # Undefined
  \/ h = "forward" /\ nk = "throws"

\* errorHandler({req, res, next, part, error, result}): the call and what the
\* handler does.  Returns the request after the call, whether the handler
\* threw, and what it threw.
ErrorHandlerCall(h, q, part, error, result, nk) ==
  LET threw == HandlerThrows(h, result, nk)
      q1 == Logged(q, Event("errorHandler", "dispatcher", part, Some(error), result, threw))
  IN CASE h = "default" ->
            [q |-> defaultErrorHandler(q1, error, result), threw |-> FALSE, err |-> HandlerError]
       [] h = "respond" ->
            [q |-> Respond(q1, 422, [keys |-> {"custom", "message"},
                                     error |-> error.message, cause |-> Undefined]),
             threw |-> FALSE, err |-> HandlerError]
       [] h = "forward" ->
            [q |-> CallNext(q1, "handler", Some(error), nk),
             threw |-> nk = "throws", err |-> NextError]
       [] h = "throwsOnResult" /\ result = Undefined ->
            [q |-> Respond(q1, 500, [keys |-> {"error"}, error |-> StringOf(error),
                                     cause |-> Undefined]),
             threw |-> FALSE, err |-> HandlerError]
       [] OTHER ->
            [q |-> q1, threw |-> TRUE, err |-> HandlerError]

----------------------------------------------------------------------------
(* The dispatcher *)

Returned(q) == [q EXCEPT !.pc = "returned"]

\* index.ts:92-94  catch (err) { next(err); }
CatchOuter(q, err, nk) ==
  LET q1 == CallNext(q, "dispatcher", Some(err), nk)
  IN IF nk = "throws" THEN [q1 EXCEPT !.pc = "escaped"] ELSE Returned(q1)

\* every caught fault replaced by the generic error
CaughtError_alwaysUnknown(vr, err) == JsError("Unknown error")

\* the `error` the inner catch hands to the error handler
CaughtError(vr, err) ==
  IF vr = "namespace"
  THEN (IF InstanceOfError(err) THEN err ELSE JsError("Unknown error"))
  ELSE (IF Truthy(err) THEN err ELSE JsError("Unknown error"))

\* index.ts:80-88  catch (err) { return errorHandler({..., part, error}); }
CatchPart(q, part, err, nk) ==
  LET hc == ErrorHandlerCall(errorHandler, q, part, CaughtError(variant, err), Undefined, nk)
  IN IF hc.threw THEN CatchOuter(hc.q, hc.err, nk) ELSE Returned(hc.q)

\* a missing `return` after the handler call: the loop goes on
ReportFailure_fallthrough(q, part, error, nk) ==
  LET hc == ErrorHandlerCall(errorHandler, q, part, error,
                             Some([success |-> FALSE, error |-> error]), nk)
  IN IF hc.threw THEN CatchPart(hc.q, part, hc.err, nk)
     ELSE [hc.q EXCEPT !.i = @ + 1]

\* the dispatcher replying by itself before it hands the failure over
ReportFailure_respondsFirst(q, part, error, nk) ==
  LET q1 == Respond(q, 400, [keys |-> {"error"}, error |-> error.message,
                             cause |-> Undefined])
      hc == ErrorHandlerCall(errorHandler, q1, part, error,
                             Some([success |-> FALSE, error |-> error]), nk)
  IN IF hc.threw THEN CatchPart(hc.q, part, hc.err, nk) ELSE Returned(hc.q)

\* index.ts:67-76  if (!result?.success) return errorHandler({..., result});
\* the call sits inside the try of line 65
ReportFailure(q, part, error, nk) ==
  LET hc == ErrorHandlerCall(errorHandler, q, part, error,
                             Some([success |-> FALSE, error |-> error]), nk)
  IN IF hc.threw THEN CatchPart(hc.q, part, hc.err, nk) ELSE Returned(hc.q)

\* storing the raw value instead of result.data
StoreValidated_raw(vr, q, part, data) ==
  IF vr = "namespace"
  THEN [q EXCEPT !.schemaNs = Some([@[1] EXCEPT ![part] = Some(q.native[part])])]
  ELSE q

\* req.schema = { [part]: result.data }: the namespace replaced by a new one
StoreValidated_replace(vr, q, part, data) ==
  IF vr = "namespace"
  THEN [q EXCEPT !.schemaNs =
          Some([p \in PartNames |-> IF p = part THEN Some(data) ELSE Undefined])]
  ELSE [q EXCEPT !.native = [@ EXCEPT ![part] = data]]

\* result.value read instead of result.data: the stored value is undefined
\* (in req[part]: the raw value 0, which no schema accepts)
StoreValidated_wrongProperty(vr, q, part, data) ==
  IF vr = "namespace"
  THEN [q EXCEPT !.schemaNs = Some([@[1] EXCEPT ![part] = Undefined])]
  ELSE [q EXCEPT !.native = [@ EXCEPT ![part] = 0]]

\* index.ts:78-79  req.schema[part] = result.data
\* index.ts:200    req[part] = result.data
StoreValidated(vr, q, part, data) ==
  IF vr = "namespace"
  THEN [q EXCEPT !.schemaNs = Some([@[1] EXCEPT ![part] = Some(data)])]
  ELSE [q EXCEPT !.native = [@ EXCEPT ![part] = data]]

\* req.schema = {} without the test of line 59
EnsureNamespace_always(vr, q) ==
  IF vr = "namespace"
  THEN [q EXCEPT !.schemaNs = Some([p \in PartNames |-> Undefined])]
  ELSE q

\* index.ts:59-61  if (!req.schema) req.schema = {}
EnsureNamespace(vr, q) ==
  IF vr = "namespace" /\ q.schemaNs = Undefined
  THEN [q EXCEPT !.schemaNs = Some([p \in PartNames |-> Undefined])]
  ELSE q

\* result.data stored before result.success is looked at
ValidateStep_storeFirst(q, nk) ==
  LET part == PartOrder[q.i]
      pr == SafeParse(schema[part], q.native[part])
      q1 == Logged(q, Event("safeParse", "dispatcher", part, Undefined, Undefined, pr.threw))
      q2 == StoreValidated(variant, q1, part, pr.data)
  IN IF pr.threw THEN CatchPart(q1, part, pr.error, nk)
     ELSE IF ~pr.success THEN ReportFailure(q2, part, pr.error, nk)
     ELSE [q2 EXCEPT !.i = @ + 1]

\* one iteration of the loop for a declared part
ValidateStep(q, nk) ==
  LET part == PartOrder[q.i]
      pr == SafeParse(schema[part], q.native[part])
      q1 == Logged(q, Event("safeParse", "dispatcher", part, Undefined, Undefined, pr.threw))
  IN IF pr.threw THEN CatchPart(q1, part, pr.error, nk)
     ELSE IF ~pr.success THEN ReportFailure(q1, part, pr.error, nk)
     ELSE [StoreValidated(variant, q1, part, pr.data) EXCEPT !.i = @ + 1]

\* index.ts:91-94  next(), and the outer catch around it
ProceedStep(q, nk) ==
  LET q1 == CallNext(q, "dispatcher", Undefined, nk)
  IN IF nk = "throws" THEN CatchOuter(q1, NextError, nk) ELSE Returned(q1)

NextKindOK(q, nk) == nk \in {"returns", "throws"} /\ q.nextKind \in {"unknown", nk}

----------------------------------------------------------------------------
(* Actions *)

Requests == DOMAIN rq

\* the host calls the middleware: index.ts:57-61
Enter(r) ==
  /\ rq[r].pc = "idle"
  /\ rq' = [rq EXCEPT ![r] = [EnsureNamespace(variant, rq[r]) EXCEPT !.pc = "loop", !.i = 1]]
  /\ UNCHANGED <<schema, errorHandler, variant, built>>

\* index.ts:64  if (schema[part]) is false
SkipPart(r) ==
  /\ rq[r].pc = "loop"
  /\ rq[r].i <= Len(PartOrder)
  /\ schema[PartOrder[rq[r].i]] = "none"
  /\ rq' = [rq EXCEPT ![r].i = @ + 1]
  /\ UNCHANGED <<schema, errorHandler, variant, built>>

\* a namespace object created once per unit instead of once per request: a
\* write of one request shows in every request
ValidatePart_sharedNamespace(r) ==
  /\ rq[r].pc = "loop"
  /\ rq[r].i <= Len(PartOrder)
  /\ schema[PartOrder[rq[r].i]] # "none"
  /\ \E nk \in {"returns", "throws"} :
       /\ NextKindOK(rq[r], nk)
       /\ rq' = [o \in DOMAIN rq |->
                   IF o = r THEN ValidateStep(rq[r], nk)
                   ELSE [rq[o] EXCEPT !.schemaNs = ValidateStep(rq[r], nk).schemaNs]]
  /\ UNCHANGED <<schema, errorHandler, variant, built>>

\* index.ts:64-89  a declared part
ValidatePart(r) ==
  /\ rq[r].pc = "loop"
  /\ rq[r].i <= Len(PartOrder)
  /\ schema[PartOrder[rq[r].i]] # "none"
  /\ \E nk \in {"returns", "throws"} :
       /\ NextKindOK(rq[r], nk)
       /\ rq' = [rq EXCEPT ![r] = ValidateStep(rq[r], nk)]
  /\ UNCHANGED <<schema, errorHandler, variant, built>>

\* index.ts:91  next() after the loop
Proceed(r) ==
  /\ rq[r].pc = "loop"
  /\ rq[r].i > Len(PartOrder)
  /\ \E nk \in {"returns", "throws"} :
       /\ NextKindOK(rq[r], nk)
       /\ rq' = [rq EXCEPT ![r] = ProceedStep(rq[r], nk)]
  /\ UNCHANGED <<schema, errorHandler, variant, built>>

\* the dispatcher called next() and it returned
Proceeded(q) ==
  /\ q.pc = "returned"
  /\ \E k \in 1..Len(q.log) :
       q.log[k].op = "next" /\ q.log[k].error = Undefined /\ ~q.log[k].threw

\* the host runs the same unit again on the request object it has passed on
\* (the unit is mounted twice on the route)
Reinvoke(r) ==
  /\ Proceeded(rq[r])
  /\ rq[r].runs < MaxRuns
  /\ rq' = [rq EXCEPT ![r] = [rq[r] EXCEPT !.pc = "idle", !.i = 1,
                                          !.raw0 = rq[r].native,
                                          !.ns0 = rq[r].schemaNs,
                                          !.log = <<>>,
                                          !.nextKind = "unknown",
                                          !.runs = @ + 1]]
  /\ UNCHANGED <<schema, errorHandler, variant, built>>

\* the raw values of a request: the parts the unit declares carry any raw
\* value, the parts it never reads carry 0
RawFor(sch) ==
  {n \in [PartNames -> RawValues] : \A p \in PartNames : sch[p] = "none" => n[p] = 0}

\* req.schema as the request arrives: absent, or left by an earlier middleware
\* of the chain
PriorNamespaces == {Undefined, Some([p \in PartNames |-> Some(0)])}

\* index.ts:53-56  validate(schema, errorHandler = defaultErrorHandler): the
\* unit made from a schema map (a record over some of the parts) and an
\* optional error handler
validate(schemaArg, handlerArg) ==
  [schema |-> [p \in PartNames |->
                 IF p \in DOMAIN schemaArg THEN schemaArg[p] ELSE "none"],
   errorHandler |-> IF handlerArg = Undefined THEN "default" ELSE handlerArg[1]]

\* index.ts:98-103
validateBody(schemaArg, handlerArg) == validate([body |-> schemaArg], handlerArg)

\* a constructor pasted from its neighbour with the part left unchanged
validateQuery_body(schemaArg, handlerArg) == validate([body |-> schemaArg], handlerArg)

\* index.ts:105-110
validateQuery(schemaArg, handlerArg) == validate([query |-> schemaArg], handlerArg)

\* index.ts:112-117
validateParams(schemaArg, handlerArg) == validate([params |-> schemaArg], handlerArg)

\* index.ts:119-124
validateHeaders(schemaArg, handlerArg) == validate([headers |-> schemaArg], handlerArg)

Constructors == {"validateBody", "validateQuery", "validateParams", "validateHeaders"}

\* the errorHandler argument: omitted, or a handler
HandlerArgs == {Undefined} \cup {Some(h) : h \in HandlerKinds}

Construct(ctor, schemaArg, handlerArg) ==
  CASE ctor = "validateBody" -> validateBody(schemaArg, handlerArg)
    [] ctor = "validateQuery" -> validateQuery(schemaArg, handlerArg)
    [] ctor = "validateParams" -> validateParams(schemaArg, handlerArg)
    [] OTHER -> validateHeaders(schemaArg, handlerArg)

\* the unit was made by validate itself
BuiltByValidate(h) == [ctor |-> "validate", schemaArg |-> "none", handlerArg |-> Some(h)]

Init ==
  /\ schema \in [PartNames -> SchemaKinds]
  /\ errorHandler \in HandlerKinds
  /\ built = BuiltByValidate(errorHandler)
  /\ variant \in Variants
  /\ \E n \in RawFor(schema), ns \in PriorNamespaces :
       rq = [r \in {1} |-> NewRequest(n, ns)]

EnterAny == \E r \in Requests : Enter(r)

SkipPartAny == \E r \in Requests : SkipPart(r)

ValidatePartAny == \E r \in Requests : ValidatePart(r)

ProceedAny == \E r \in Requests : Proceed(r)

ReinvokeAny == \E r \in Requests : Reinvoke(r)

Next ==
  \/ EnterAny
  \/ SkipPartAny
  \/ ValidatePartAny
  \/ ProceedAny
  \/ ReinvokeAny

Spec == Init /\ [][Next]_vars

\* Several requests in flight through one unit.  The steps of the requests
\* interleave freely (coarser in the program, where one call of the
\* middleware runs to its end).  The unit is mounted once and declares body
\* and query at most; every request arrives without a namespace and carries
\* one raw value in all the parts the unit declares.
ConcSchemas ==
  {sch \in [PartNames -> SchemaKinds] : sch["params"] = "none" /\ sch["headers"] = "none"}

RawConc(sch) ==
  {n \in RawFor(sch) : \A p \in PartNames, o \in PartNames :
                          (sch[p] # "none" /\ sch[o] # "none") => n[p] = n[o]}

InitConc ==
  /\ schema \in ConcSchemas
  /\ errorHandler \in HandlerKinds
  /\ built = BuiltByValidate(errorHandler)
  /\ variant \in Variants
  /\ rq \in [1..MaxReq -> {NewRequest(n, Undefined) : n \in RawConc(schema)}]

NextConc ==
  \/ EnterAny
  \/ SkipPartAny
  \/ ValidatePartAny
  \/ ProceedAny

SpecConc == InitConc /\ [][NextConc]_vars

\* A unit made by one of the four single-part constructors, run on a request
\* with any raw value in every part.
InitCtor ==
  /\ \E c \in Constructors, k \in SchemaKinds \ {"none"}, h \in HandlerArgs :
       /\ schema = Construct(c, k, h).schema
       /\ errorHandler = Construct(c, k, h).errorHandler
       /\ built = [ctor |-> c, schemaArg |-> k, handlerArg |-> h]
  /\ variant \in Variants
  /\ \E n \in [PartNames -> RawValues], ns \in PriorNamespaces :
       rq = [r \in {1} |-> NewRequest(n, ns)]

SpecCtor == InitCtor /\ [][Next]_vars

\* A chain of units on one route: when a unit has called next(), the host
\* hands the same request object to the next unit, which has a schema map
\* and an error handler of its own.  schema and errorHandler are those of the
\* unit the request is in.  The units declare body and query at most.
ChainSchemas == ConcSchemas

Handover(r) ==
  /\ Proceeded(rq[r])
  /\ rq[r].runs < MaxRuns
  /\ schema' \in ChainSchemas
  /\ errorHandler' \in HandlerKinds
  /\ built' = BuiltByValidate(errorHandler')
  /\ rq' = [rq EXCEPT ![r] = [rq[r] EXCEPT !.pc = "idle", !.i = 1,
                                          !.raw0 = rq[r].native,
                                          !.ns0 = rq[r].schemaNs,
                                          !.log = <<>>,
                                          !.nextKind = "unknown",
                                          !.runs = @ + 1]]
  /\ UNCHANGED variant

HandoverAny == \E r \in Requests : Handover(r)

InitChain ==
  /\ schema \in ChainSchemas
  /\ errorHandler \in HandlerKinds
  /\ built = BuiltByValidate(errorHandler)
  /\ variant \in Variants
  /\ \E n \in [PartNames -> RawValues], ns \in PriorNamespaces :
       /\ n["params"] = 0
       /\ n["headers"] = 0
       /\ rq = [r \in {1} |-> NewRequest(n, ns)]

NextChain ==
  \/ EnterAny
  \/ SkipPartAny
  \/ ValidatePartAny
  \/ ProceedAny
  \/ HandoverAny

SpecChain == InitChain /\ [][NextChain]_vars

----------------------------------------------------------------------------
(* Vocabulary of the properties *)

Terminated(q) == q.pc \in {"returned", "escaped"}

EventsOf(q, op) == SelectSeq(q.log, LAMBDA e : e.op = op)

HandlerCalls(q) == EventsOf(q, "errorHandler")

NextCalls(q) == EventsOf(q, "next")

\* what the dispatcher itself did: its calls of next and of the error handler
DispatcherTerminals(q) ==
  SelectSeq(q.log, LAMBDA e : e.by = "dispatcher" /\ e.op \in {"next", "errorHandler"})

DispatcherNextCalls(q) ==
  SelectSeq(q.log, LAMBDA e : e.by = "dispatcher" /\ e.op = "next")

\* the order in which the properties rank the parts
Rank(p) ==
  CASE p = "body" -> 1 [] p = "query" -> 2 [] p = "params" -> 3 [] OTHER -> 4

Declared(p) == schema[p] # "none"

\* what the validator of declared part p answers for the raw value received
Answer(q, p) == SafeParse(schema[p], q.raw0[p])

Fails(q, p) == Declared(p) /\ (Answer(q, p).threw \/ ~Answer(q, p).success)

FailingParts(q) == {p \in PartNames : Fails(q, p)}

FirstFailing(q) ==
  CHOOSE p \in FailingParts(q) : \A o \in FailingParts(q) : Rank(p) <= Rank(o)

AllPass(q) == FailingParts(q) = {}

\* where the unit leaves the validated data of part p
ValidatedData(q, p) ==
  IF variant = "namespace" THEN Slot(q.schemaNs, p) ELSE Some(q.native[p])

SomeThrew(q, ops) == \E k \in 1..Len(q.log) : q.log[k].op \in ops /\ q.log[k].threw

----------------------------------------------------------------------------
(* C1 *)

\* C1: when declared parts fail, every call of the error handler names the
\* earliest failing part in the order body, query, params, headers, the
\* handler has been called by the time the middleware ends, and no validator
\* of a part later in that order is ever invoked.
C1_EarliestFailureReported ==
  \A r \in Requests :
    LET q == rq[r] IN
      ~AllPass(q) =>
        /\ \A k \in 1..Len(q.log) :
             /\ q.log[k].op = "safeParse" => Rank(q.log[k].part) <= Rank(FirstFailing(q))
             /\ q.log[k].op = "errorHandler" => q.log[k].part = FirstFailing(q)
        /\ Terminated(q) => Len(HandlerCalls(q)) >= 1

\* two declared parts fail, an earlier declared part passed, the unit is done
C1_Witness ==
  \E r \in Requests :
    LET q == rq[r] IN
      /\ Terminated(q)
      /\ Cardinality(FailingParts(q)) >= 2
      /\ Declared("body") /\ ~Fails(q, "body")
      /\ Len(HandlerCalls(q)) = 1
      /\ HandlerCalls(q)[1].part = FirstFailing(q)

----------------------------------------------------------------------------
(* C2 *)

\* C2: when every declared part satisfies its schema (also when no part is
\* declared), the error handler is never called and the response stays
\* untouched; when the middleware ends it has called the continuation exactly
\* once without argument (and not at all otherwise, unless that call threw),
\* and the validated data of every declared part is the validator's
\* normalized output.
C2_AllPassProceeds ==
  \A r \in Requests :
    LET q == rq[r]
        plain == SelectSeq(q.log, LAMBDA e : e.op = "next" /\ e.error = Undefined)
    IN AllPass(q) =>
         /\ HandlerCalls(q) = <<>>
         /\ q.res = InitialResponse
         /\ Len(plain) <= 1
         /\ Terminated(q) =>
              /\ Len(plain) = 1
              /\ ~SomeThrew(q, {"next"}) => Len(NextCalls(q)) = 1
              /\ \A p \in PartNames :
                   Declared(p) => ValidatedData(q, p) = Some(Answer(q, p).data)

\* a run that passed and whose normalized output differs from the raw value
C2_Witness ==
  \E r \in Requests :
    LET q == rq[r] IN
      /\ q.pc = "returned"
      /\ AllPass(q)
      /\ \E p \in PartNames :
           /\ Declared(p)
           /\ Answer(q, p).data # q.raw0[p]
           /\ ValidatedData(q, p) = Some(Answer(q, p).data)
      /\ Len(NextCalls(q)) = 1

----------------------------------------------------------------------------
(* C3 *)

\* C3: the error handler is invoked at most once per request, whatever the
\* schema map, the request and the error handler, also when the handler
\* throws.
C3_HandlerAtMostOnce ==
  \A r \in Requests : Len(HandlerCalls(rq[r])) <= 1

----------------------------------------------------------------------------
(* C4 *)

----------------------------------------------------------------------------
(* C5 *)

\* C5: when the error handler throws while it is invoked for a failing part,
\* the fault is forwarded to the continuation as an error argument.
C5_HandlerFaultForwarded ==
  \A r \in Requests :
    LET q == rq[r] IN
      (Terminated(q) /\ SomeThrew(q, {"errorHandler"})) =>
        \E k \in 1..Len(q.log) :
          /\ q.log[k].op = "next"
          /\ q.log[k].by = "dispatcher"
          /\ q.log[k].error # Undefined

----------------------------------------------------------------------------
(* C6 *)

\* the fault the validator of part p throws for the raw value received
Fault(q, p) == Answer(q, p).error

\* the handler call that follows the k-th logged call
FollowedByHandler(q, k) == k < Len(q.log) /\ q.log[k + 1].op = "errorHandler"

\* C6: when the validator of a declared part throws, the error handler is
\* invoked with that part's name, an error whose message is the generic
\* "Unknown error" and no result; no later part is evaluated, the dispatcher
\* does not invoke the continuation and nothing escapes the middleware.
C6_DefectReportedAsUnknownError ==
  \A r \in Requests :
    LET q == rq[r] IN
      \A k \in 1..Len(q.log) :
        (Terminated(q) /\ q.log[k].op = "safeParse" /\ q.log[k].threw) =>
          /\ FollowedByHandler(q, k)
          /\ q.log[k + 1].part = q.log[k].part
          /\ q.log[k + 1].result = Undefined
          /\ q.log[k + 1].error[1].message = "Unknown error"
          /\ \A j \in (k + 1)..Len(q.log) : q.log[j].op # "safeParse"
          /\ DispatcherNextCalls(q) = <<>>
          /\ q.pc = "returned"

\* the error the handler is meant to receive for a thrown fault: the fault
\* itself when it is an Error instance (namespace variant) or any truthy
\* value (write-through variant), else a new Error('Unknown error')
ExpectedCaught(fault) ==
  IF \/ variant = "namespace" /\ fault.type = "Error"
     \/ variant = "writeThrough" /\ fault.type \in {"Error", "string", "object"}
  THEN fault
  ELSE [type |-> "Error", message |-> "Unknown error", cause |-> Undefined]

\* C6 as amended: when the validator of a declared part throws, the error
\* handler is invoked with that part's name, no result, and as error the
\* thrown fault itself when it is an Error instance (in the write-through
\* variant: when it is truthy), otherwise a new Error with the message
\* "Unknown error"; no later part is evaluated; and unless the error handler
\* itself throws, the dispatcher does not invoke the continuation and nothing
\* escapes the middleware.
C6_DefectReported ==
  \A r \in Requests :
    LET q == rq[r] IN
      \A k \in 1..Len(q.log) :
        (Terminated(q) /\ q.log[k].op = "safeParse" /\ q.log[k].threw) =>
          /\ FollowedByHandler(q, k)
          /\ q.log[k + 1].part = q.log[k].part
          /\ q.log[k + 1].result = Undefined
          /\ q.log[k + 1].error = Some(ExpectedCaught(Fault(q, q.log[k].part)))
          /\ \A j \in (k + 1)..Len(q.log) : q.log[j].op # "safeParse"
          /\ ~SomeThrew(q, {"errorHandler"}) =>
               (DispatcherNextCalls(q) = <<>> /\ q.pc = "returned")

\* a validator threw an Error of its own and the handler received that Error
C6_Witness ==
  \E r \in Requests :
    LET q == rq[r] IN
      /\ q.pc = "returned"
      /\ Len(HandlerCalls(q)) = 1
      /\ HandlerCalls(q)[1].result = Undefined
      /\ HandlerCalls(q)[1].error[1].message = "defect"
      /\ SomeThrew(q, {"safeParse"})
      /\ \E p \in PartNames : Declared(p) /\ Rank(p) > Rank(HandlerCalls(q)[1].part)

----------------------------------------------------------------------------
(* C7 *)

\* the body the default handler is to send for a handler call
DefaultBody(call) ==
  IF call.result # Undefined
  THEN [keys |-> {"error", "cause"}, error |-> call.result[1].error.message,
        cause |-> call.result[1].error.cause]
  ELSE [keys |-> {"error"},
        error |-> IF call.error[1].type = "Error" THEN call.error[1].message
                  ELSE StringOf(call.error[1]),
        cause |-> Undefined]

\* C7: with the default error handler, every failure of a declared part ends
\* with status 400 and the body {error, cause} of the structured failure
\* result when there is one and {error: message or string form} otherwise,
\* and the continuation is never called.
C7_DefaultHandlerResponds ==
  errorHandler = "default" =>
    \A r \in Requests :
      LET q == rq[r] IN
        /\ (Terminated(q) /\ ~AllPass(q)) =>
             /\ Len(HandlerCalls(q)) = 1
             /\ q.res.status = 400
             /\ q.res.body = Some(DefaultBody(HandlerCalls(q)[1]))
             /\ (Answer(q, FirstFailing(q)).threw <=> HandlerCalls(q)[1].result = Undefined)
        /\ ~AllPass(q) => NextCalls(q) = <<>>

\* both shapes of the default reply
C7_Witness ==
  /\ errorHandler = "default"
  /\ \E r \in Requests :
       LET q == rq[r] IN
         /\ Terminated(q)
         /\ q.res.status = 400
         /\ q.res.body # Undefined
         /\ q.res.body[1].keys = {"error"}
         /\ q.res.body[1].error = "boom"

C7_WitnessStructured ==
  /\ errorHandler = "default"
  /\ \E r \in Requests :
       LET q == rq[r] IN
         /\ Terminated(q)
         /\ q.res.status = 400
         /\ q.res.body # Undefined
         /\ q.res.body[1].keys = {"error", "cause"}

----------------------------------------------------------------------------
(* C8 *)

\* C8: on full success the request's native field of every declared part
\* holds the validated, normalized data instead of the raw value.
C8_NativeFieldHoldsValidated ==
  \A r \in Requests :
    LET q == rq[r] IN
      (q.pc = "returned" /\ AllPass(q)) =>
        \A p \in PartNames : Declared(p) => q.native[p] = Answer(q, p).data

----------------------------------------------------------------------------
(* C9 *)

\* C9: for a part with no schema declared, no validator is ever invoked and
\* both the native field and the slot of the validated-data namespace stay as
\* the unit received them, whatever happens to the declared parts.
C9_UndeclaredUntouched ==
  \A r \in Requests :
    LET q == rq[r] IN
      \A p \in PartNames :
        ~Declared(p) =>
          /\ \A k \in 1..Len(q.log) : q.log[k].op = "safeParse" => q.log[k].part # p
          /\ q.native[p] = q.raw0[p]
          /\ Slot(q.schemaNs, p) = Slot(q.ns0, p)

\* a declared part failed, an undeclared part kept the slot an earlier
\* middleware had filled
C9_Witness ==
  \E r \in Requests :
    LET q == rq[r] IN
      /\ Terminated(q)
      /\ Len(HandlerCalls(q)) >= 1
      /\ \E p \in PartNames : ~Declared(p) /\ Slot(q.schemaNs, p) = Some(0)
      /\ \E p \in PartNames : Declared(p) /\ ~Fails(q, p) /\ variant = "namespace"
                                /\ Slot(q.schemaNs, p) # Slot(q.ns0, p)

----------------------------------------------------------------------------
(* C10 *)

\* the request as the unit received it
AsReceived(q) ==
  [q EXCEPT !.pc = "idle", !.i = 1, !.native = q.raw0, !.schemaNs = q.ns0,
            !.res = InitialResponse, !.log = <<>>, !.nextKind = "unknown"]

RECURSIVE RunLoop(_, _)
\* the loop of the unit run to its end on one request
RunLoop(q, nk) ==
  IF q.pc # "loop" THEN q
  ELSE IF q.i > Len(PartOrder) THEN ProceedStep(q, nk)
  ELSE IF schema[PartOrder[q.i]] = "none" THEN RunLoop([q EXCEPT !.i = @ + 1], nk)
  ELSE RunLoop(ValidateStep(q, nk), nk)

\* what the unit does with request q0 when it is the only request
RunAlone(q0, nk) ==
  RunLoop([EnsureNamespace(variant, q0) EXCEPT !.pc = "loop", !.i = 1], nk)

\* a step of one request leaves every other request as it was
OneRequestPerStep ==
  \A r \in Requests, o \in Requests :
    (rq'[r] # rq[r] /\ o # r) => rq'[o] = rq[o]

AloneOutcome ==
  \A r \in Requests :
    LET q == rq[r]
        nk == IF q.nextKind = "unknown" THEN "returns" ELSE q.nextKind
    IN Terminated(q) => q = RunAlone(AsReceived(q), nk)

\* C10: one unit serves several in-flight requests in any interleaving: no
\* step changes the schema map, the error handler or another request, and a
\* finished request is exactly as the unit leaves it when that request is
\* processed alone.
C10_RequestsIsolated ==
  /\ [][/\ schema' = schema
        /\ errorHandler' = errorHandler
        /\ variant' = variant
        /\ DOMAIN rq' = DOMAIN rq
        /\ OneRequestPerStep]_vars
  /\ []AloneOutcome

\* two requests of different content both finished, one failed and one
\* passed, while the other was under way
C10_Witness ==
  \E r \in Requests, o \in Requests :
    /\ r # o
    /\ Terminated(rq[r]) /\ Terminated(rq[o])
    /\ rq[r].raw0 # rq[o].raw0
    /\ HandlerCalls(rq[r]) # <<>>
    /\ HandlerCalls(rq[o]) = <<>>
    /\ Slot(rq[o].schemaNs, "body") # Undefined

----------------------------------------------------------------------------
(* C11 *)

\* the response changes only in a step in which the error handler is called
ResponseChangedByHandlerOnly ==
  \A r \in Requests :
    rq'[r].res # rq[r].res =>
      Len(HandlerCalls(rq'[r])) > Len(HandlerCalls(rq[r]))

\* a handler that forwards the error: one call of next, made by the handler,
\* with the error it was given, and a response nobody touched
ForwardedOnce ==
  errorHandler = "forward" =>
    \A r \in Requests :
      LET q == rq[r] IN
        /\ q.res = InitialResponse
        /\ (Terminated(q) /\ ~AllPass(q) /\ ~SomeThrew(q, {"next"})) =>
             /\ Len(HandlerCalls(q)) = 1
             /\ Len(NextCalls(q)) = 1
             /\ NextCalls(q)[1].by = "handler"
             /\ NextCalls(q)[1].error # Undefined
             /\ NextCalls(q)[1].error = HandlerCalls(q)[1].error

\* C11: when a custom error handler answers a failure by calling the
\* continuation with the error, the continuation is invoked exactly once,
\* with a non-empty error argument, and the response is left as it was; on
\* every path the response changes only inside a call of the error handler,
\* never by the dispatcher itself.
C11_ForwardLeavesResponse ==
  /\ []ForwardedOnce
  /\ [][ResponseChangedByHandlerOnly]_vars

\* a forwarding handler was called for a failing part and its next(error)
\* returned
C11_Witness ==
  /\ errorHandler = "forward"
  /\ \E r \in Requests :
       LET q == rq[r] IN
         /\ q.pc = "returned"
         /\ ~AllPass(q)
         /\ Len(NextCalls(q)) = 1
         /\ NextCalls(q)[1].error # Undefined
         /\ q.res = InitialResponse

----------------------------------------------------------------------------
(* C12 *)

\* the part each convenience constructor is for
CtorPart(c) ==
  CASE c = "validateBody" -> "body"
    [] c = "validateQuery" -> "query"
    [] c = "validateParams" -> "params"
    [] OTHER -> "headers"

\* C12: the constructor for part P applied to (schema, errorHandler) makes
\* the unit validate({P: schema}, errorHandler): P is the only declared part
\* and carries that schema, the handler is the given one or the default
\* handler when it is omitted, only P is ever validated, and a failure is
\* reported, with part P, exactly when P's raw value fails that schema.
C12_ConstructorsSpecialize ==
  LET P == CtorPart(built.ctor) IN
    /\ built.ctor \in Constructors
    /\ schema = [p \in PartNames |-> IF p = P THEN built.schemaArg ELSE "none"]
    /\ errorHandler = IF built.handlerArg = Undefined THEN "default"
                      ELSE built.handlerArg[1]
    /\ \A r \in Requests :
         LET q == rq[r]
             pr == SafeParse(built.schemaArg, q.raw0[P])
         IN /\ \A k \in 1..Len(q.log) :
                 q.log[k].op \in {"safeParse", "errorHandler"} => q.log[k].part = P
            /\ Terminated(q) =>
                 /\ Len(EventsOf(q, "safeParse")) = 1
                 /\ (HandlerCalls(q) # <<>>) <=> (pr.threw \/ ~pr.success)

\* validateHeaders without a handler: the headers fail, the default handler
\* replies, and the body, invalid for the same schema, was never looked at
C12_Witness ==
  /\ built.ctor = "validateHeaders"
  /\ built.handlerArg = Undefined
  /\ \E r \in Requests :
       LET q == rq[r] IN
         /\ Terminated(q)
         /\ q.raw0["body"] = 0
         /\ Len(HandlerCalls(q)) = 1
         /\ HandlerCalls(q)[1].part = "headers"
         /\ q.res.status = 400

----------------------------------------------------------------------------
(* C13 *)

\* what a step may do to req.schema of request r: a namespace that is there
\* stays, and a slot changes only when the unit has just validated that
\* declared part successfully, to the validator's output
NamespaceStep(r) ==
  LET q == rq[r]
      n == rq'[r]
  IN /\ q.schemaNs # Undefined => n.schemaNs # Undefined
     /\ \A p \in PartNames :
          Slot(n.schemaNs, p) # Slot(q.schemaNs, p) =>
            /\ q.pc = "loop"
            /\ Rank(p) = q.i
            /\ Declared(p)
            /\ SafeParse(schema[p], q.native[p]).success
            /\ ~SafeParse(schema[p], q.native[p]).threw
            /\ Slot(n.schemaNs, p) = Some(SafeParse(schema[p], q.native[p]).data)

\* C13: req.schema is created only when absent and never replaced: through
\* any sequence of units run on one request, a slot of the namespace changes
\* only when the running unit declares that part and has validated it
\* successfully, so the data earlier units wrote for other parts stays.
C13_NamespaceKept ==
  [][\A r \in Requests : NamespaceStep(r)]_vars

\* the second unit of a chain declares query only: it has written the query
\* slot, and the body slot still holds what the first unit wrote
C13_Witness ==
  \E r \in Requests :
    LET q == rq[r] IN
      /\ q.runs = 2
      /\ q.pc = "returned"
      /\ ~Declared("body") /\ Declared("query")
      /\ Slot(q.ns0, "body") = Some(2)
      /\ Slot(q.schemaNs, "body") = Some(2)
      /\ Slot(q.ns0, "query") # Slot(q.schemaNs, "query")

----------------------------------------------------------------------------
(* C14 *)

\* the validated data of part p the request carried when the unit received it
ReceivedValidated(q, p) ==
  IF variant = "namespace" THEN Slot(q.ns0, p) ELSE Some(q.raw0[p])

\* C14: when the unit runs a second time on a request it has already
\* validated, every declared part passes again, the error handler is not
\* called, the validated data of every declared part is there and stays what
\* the first run produced, and the run ends with one next().
C14_SecondRunUnchanged ==
  \A r \in Requests :
    LET q == rq[r] IN
      q.runs >= 2 =>
        /\ AllPass(q)
        /\ HandlerCalls(q) = <<>>
        /\ \A p \in PartNames :
             Declared(p) =>
               /\ ReceivedValidated(q, p) # Undefined
               /\ ValidatedData(q, p) = ReceivedValidated(q, p)
        /\ Terminated(q) =>
             Len(SelectSeq(q.log, LAMBDA e : e.op = "next" /\ e.error = Undefined)) = 1

\* the write-through unit has run twice: the second run parsed the normalized
\* value the first run had stored in req[part] and left it there
C14_Witness ==
  \E r \in Requests :
    LET q == rq[r] IN
      /\ variant = "writeThrough"
      /\ q.runs = 2
      /\ q.pc = "returned"
      /\ \E p \in PartNames :
           /\ Declared(p)
           /\ Len(SelectSeq(q.log, LAMBDA e : e.op = "safeParse" /\ e.part = p)) = 1
           /\ q.native[p] = Normalize(q.raw0[p])
           /\ q.native[p] = 2

----------------------------------------------------------------------------
(* C15 *)

\* C15: validated data is written part by part and never rolled back: once
\* the error handler has been called for part P, every declared part before
\* P holds its validator's normalized output, and P and every part after it
\* hold what they held when the unit received the request.
C15_NoRollback ==
  \A r \in Requests :
    LET q == rq[r] IN
      HandlerCalls(q) # <<>> =>
        \A p \in PartNames :
          /\ (Declared(p) /\ Rank(p) < Rank(HandlerCalls(q)[1].part)) =>
               ValidatedData(q, p) = Some(Answer(q, p).data)
          /\ Rank(p) >= Rank(HandlerCalls(q)[1].part) =>
               /\ Slot(q.schemaNs, p) = Slot(q.ns0, p)
               /\ q.native[p] = q.raw0[p]

\* the handler was called for a part that comes after a declared part whose
\* new data is in the namespace, while the failing part's slot is still the
\* one an earlier middleware had filled
C15_Witness ==
  \E r \in Requests :
    LET q == rq[r] IN
      /\ variant = "namespace"
      /\ Terminated(q)
      /\ HandlerCalls(q) # <<>>
      /\ HandlerCalls(q)[1].part = "params"
      /\ Declared("body")
      /\ Slot(q.schemaNs, "body") = Some(2)
      /\ Slot(q.ns0, "body") = Some(0)
      /\ Slot(q.schemaNs, "params") = Some(0)
      /\ Declared("headers")

====
